---- MODULE Spec2Model ----
(***************************************************************************)
(* Model of the dewallet identity chaincode (dewallet_cc.go): the ledger   *)
(* state keyed by username and the five handlers behind Invoke.            *)
(*                                                                         *)
(* JSON texts (request bodies args[0], stored values, response payloads)   *)
(* are records over the JSON member names; Go structs are records over the *)
(* Go field names.  Unmarshal* and Marshal* translate between the two the  *)
(* way encoding/json does with the struct tags of the source.              *)
(***************************************************************************)
EXTENDS Integers, Sequences, FiniteSets, TLC

VARIABLES store, pre, last, registered, txs

vars == <<store, pre, last, registered, txs>>

(***************************************************************************)
(* Bounds of the model.                                                    *)
(***************************************************************************)
\* largest number of Key entries the ledger holds over all identities
MaxKeys == 2

(***************************************************************************)
(* JSON texts.                                                             *)
(***************************************************************************)
\* tokens of a JSON member that is missing, or present but not a string
Absent == "<absent>"
JTrue == "<true>"
NonStrings == {Absent, JTrue}

\* json.Unmarshal into a Go string: a missing member or a value of another
\* type leaves the field at its zero value
Str(tok) == IF tok \in NonStrings THEN "" ELSE tok

\* a JSON text with no member set; syntax = FALSE is a text that does not
\* parse, and raw holds its characters
EmptyJson ==
  [syntax |-> TRUE, raw |-> "", form |-> 0, username |-> Absent, publicKey |-> Absent,
   ePublicKey |-> Absent, sPublicKey |-> Absent, data |-> Absent,
   verified |-> Absent, owner |-> Absent, key |-> Absent, keys |-> <<>>]

\* type Key struct { Owner `json:"for"`; Key `json:"key"` }
UnmarshalKey(j) == [Owner |-> Str(j.for), Key |-> Str(j.key)]
MarshalKey(k) == [for |-> k.Owner, key |-> k.Key]

ZeroIdentity ==
  [Username |-> "", PublicKey |-> "", EPublicKey |-> "", SPublicKey |-> "",
   Data |-> "", Verified |-> "", Keys |-> <<>>]

\* json.Unmarshal(bytes, &i) with i an Identity: a text that does not parse
\* decodes nothing
UnmarshalIdentity(j) ==
  IF ~j.syntax THEN ZeroIdentity
  ELSE [Username |-> Str(j.username), PublicKey |-> Str(j.publicKey),
        EPublicKey |-> Str(j.ePublicKey), SPublicKey |-> Str(j.sPublicKey),
        Data |-> Str(j.data), Verified |-> Str(j.verified),
        Keys |-> [n \in 1..Len(j.keys) |-> UnmarshalKey(j.keys[n])]]

\* json.Marshal(i) with i an Identity
MarshalIdentity(i) ==
  [EmptyJson EXCEPT !.username = i.Username, !.publicKey = i.PublicKey,
                    !.ePublicKey = i.EPublicKey, !.sPublicKey = i.SPublicKey,
                    !.data = i.Data, !.verified = i.Verified,
                    !.keys = [n \in 1..Len(i.Keys) |-> MarshalKey(i.Keys[n])]]

UnmarshalUpdateUserDataRequest(j) ==
  IF ~j.syntax THEN [Username |-> "", Data |-> ""]
  ELSE [Username |-> Str(j.username), Data |-> Str(j.data)]

UnmarshalAddKeyRequest(j) ==
  IF ~j.syntax THEN [Username |-> "", Owner |-> "", Key |-> ""]
  ELSE [Username |-> Str(j.username), Owner |-> Str(j.owner), Key |-> Str(j.key)]

MarshalAddKeyResponse(res) ==
  [EmptyJson EXCEPT !.owner = res.Owner, !.key = res.Key]

UnmarshalGetPublicKeyRequest(j) ==
  IF ~j.syntax THEN [Username |-> ""] ELSE [Username |-> Str(j.username)]

MarshalGetPublicKeyResponse_Swapped(res) ==
  [EmptyJson EXCEPT !.publicKey = res.EPublicKey, !.ePublicKey = res.PublicKey]
MarshalGetPublicKeyResponse(res) ==
  [EmptyJson EXCEPT !.publicKey = res.PublicKey, !.ePublicKey = res.EPublicKey]

UnmarshalGetUserDataRequest(j) ==
  IF ~j.syntax THEN [Username |-> "", Owner |-> ""]
  ELSE [Username |-> Str(j.username), Owner |-> Str(j.owner)]

MarshalGetUserDataResponse(res) ==
  [EmptyJson EXCEPT !.publicKey = res.PublicKey, !.ePublicKey = res.EPublicKey,
                    !.sPublicKey = res.SPublicKey, !.data = res.Data,
                    !.key = res.Key]

(***************************************************************************)
(* Responses: shim.Success(payload), shim.Error(message), or a Go panic    *)
(* (index out of range) that ends the invocation without a response.       *)
(***************************************************************************)
\* names holds the texts a message is formatted with (%v)
Success(payload) ==
  [status |-> "Success", payload |-> payload, message |-> "", names |-> <<>>]
Error(message) ==
  [status |-> "Error", payload |-> EmptyJson, message |-> message, names |-> <<>>]
ErrorNaming(message, text) ==
  [status |-> "Error", payload |-> EmptyJson, message |-> message,
   names |-> <<text>>]
Fault ==
  [status |-> "Fault", payload |-> EmptyJson, message |-> "index out of range",
   names |-> <<>>]

(***************************************************************************)
(* Signatures.  args[1] is a record: hex says whether it is a hexadecimal  *)
(* string; when it is, it is the RSASSA-PKCS1-v1_5 signature made with the *)
(* private key of public key signer over SHA-256 of the text msg.          *)
(***************************************************************************)
RSAKeys == {"K1", "K2"}
\* a well-formed PKIX public key that is not RSA
ECKey == "EC"

Sign(signer, msg) == [hex |-> TRUE, signer |-> signer, msg |-> msg]
NotHex == [hex |-> FALSE, signer |-> "", msg |-> EmptyJson]

NoCheck == "<no check>"

\* VerifySignature that compares the decoded members, not the raw text
VerifySignature_Canonical(args, publicKey) ==
  IF Len(args) < 2 THEN "panic"
  ELSE IF ~args[2].hex THEN "Error in decoding signature"
  ELSE IF publicKey \notin RSAKeys \cup {ECKey} THEN "Error in parsing key"
  ELSE IF publicKey \in RSAKeys
       THEN IF /\ args[2].signer = publicKey
               /\ [args[2].msg EXCEPT !.form = 0] = [args[1] EXCEPT !.form = 0]
            THEN "" ELSE "Error in verifying signature"
  ELSE "Key is not RSA"

\* VerifySignature that checks the length of args before reading args[1]
VerifySignature_LenChecked(args, publicKey) ==
  IF Len(args) < 2 THEN "Error in decoding signature"
  ELSE IF ~args[2].hex THEN "Error in decoding signature"
  ELSE IF publicKey \notin RSAKeys \cup {ECKey} THEN "Error in parsing key"
  ELSE IF publicKey \in RSAKeys
       THEN IF args[2].signer = publicKey /\ args[2].msg = args[1]
            THEN "" ELSE "Error in verifying signature"
  ELSE "Key is not RSA"

\* VerifySignature(args, publicKey): "" is the nil error, "panic" the fault
\* of reading args[1] from a shorter argument list
VerifySignature(args, publicKey) ==
  IF Len(args) < 2 THEN "panic"
  ELSE IF ~args[2].hex THEN "Error in decoding signature"
  ELSE IF publicKey \notin RSAKeys \cup {ECKey} THEN "Error in parsing key"
  ELSE IF publicKey \in RSAKeys
       THEN IF args[2].signer = publicKey /\ args[2].msg = args[1]
            THEN "" ELSE "Error in verifying signature"
  ELSE "Key is not RSA"

(***************************************************************************)
(* The ledger state: a function from the keys that hold a value to the     *)
(* stored JSON text.  env is what the store does in this invocation:       *)
(* "ok", "getErr" (GetState fails) or "putErr" (PutState fails).           *)
(***************************************************************************)
Envs == {"ok", "getErr", "putErr"}

GetStateFails(env) == env = "getErr"
\* the shim rejects an empty key
PutStateFails(env, key) == env = "putErr" \/ key = ""
\* a put that drops every other key
PutState_Reset(st, key, value) == [k \in {key} |-> value]
PutState(st, key, value) ==
  [k \in DOMAIN st \cup {key} |-> IF k = key THEN value ELSE st[k]]

\* the outcome of a handler: its response, the store it leaves, and the key
\* against which a signature check succeeded (NoCheck if none did)
Outcome(resp, st, checked) == [resp |-> resp, store |-> st, checked |-> checked]

(***************************************************************************)
(* Handlers.                                                               *)
(***************************************************************************)
\* Register without line 117 (the submitted keys are kept)
Register_KeepKeys(st, args, env) ==
  LET i == UnmarshalIdentity(args[1])
      iBytes == MarshalIdentity(i)
  IN IF Len(args) < 1 THEN Outcome(Fault, st, NoCheck)
     ELSE IF PutStateFails(env, i.Username)
     THEN Outcome(Error("PutState failed"), st, NoCheck)
     ELSE Outcome(Success(iBytes), PutState(st, i.Username, iBytes), NoCheck)

\* Register that stores the record under its publicKey
Register_KeyedByPublicKey(st, args, env) ==
  LET i0 == UnmarshalIdentity(args[1])
      i == [i0 EXCEPT !.Keys = <<>>]
      iBytes == MarshalIdentity(i)
  IN IF Len(args) < 1 THEN Outcome(Fault, st, NoCheck)
     ELSE IF PutStateFails(env, i.PublicKey)
     THEN Outcome(Error("PutState failed"), st, NoCheck)
     ELSE Outcome(Success(iBytes), PutState(st, i.PublicKey, iBytes), NoCheck)

\* Register that refuses a username that already has a record
Register_IfAbsent(st, args, env) ==
  LET i0 == UnmarshalIdentity(args[1])
      i == [i0 EXCEPT !.Keys = <<>>]
      iBytes == MarshalIdentity(i)
  IN IF Len(args) < 1 THEN Outcome(Fault, st, NoCheck)
     ELSE IF i.Username \in DOMAIN st
     THEN Outcome(Error("Username already registered"), st, NoCheck)
     ELSE IF PutStateFails(env, i.Username)
     THEN Outcome(Error("PutState failed"), st, NoCheck)
     ELSE Outcome(Success(iBytes), PutState(st, i.Username, iBytes), NoCheck)

Register(st, args, env) ==
  LET i0 == UnmarshalIdentity(args[1])
      i == [i0 EXCEPT !.Keys = <<>>]
      iBytes == MarshalIdentity(i)
  IN IF Len(args) < 1 THEN Outcome(Fault, st, NoCheck)
     ELSE IF PutStateFails(env, i.Username)
     THEN Outcome(Error("PutState failed"), st, NoCheck)
     ELSE Outcome(Success(iBytes), PutState(st, i.Username, iBytes), NoCheck)

\* the key UpdateUserData hands to VerifySignature (line 156)
UpdateUserDataKey_FromRequest(args, i) == UnmarshalIdentity(args[1]).SPublicKey
UpdateUserDataKey(args, i) == i.SPublicKey

\* UpdateUserData without the nil check of lines 149-151
UpdateUserData_NoNilCheck(st, args, env) ==
  LET r == UnmarshalUpdateUserDataRequest(args[1])
  IN IF Len(args) < 1 THEN Outcome(Fault, st, NoCheck)
     ELSE IF GetStateFails(env) THEN Outcome(Error("Failed to get state"), st, NoCheck)
     ELSE LET i == IF r.Username \in DOMAIN st
                   THEN UnmarshalIdentity(st[r.Username]) ELSE ZeroIdentity
              pk == UpdateUserDataKey(args, i)
              err == VerifySignature(args, pk)
              i2 == [i EXCEPT !.Data = r.Data]
              iBytes == MarshalIdentity(i2)
          IN IF err = "panic" THEN Outcome(Fault, st, NoCheck)
             ELSE IF err # "" THEN Outcome(Error("Can't verify signature"), st, NoCheck)
             ELSE IF PutStateFails(env, i2.Username)
             THEN Outcome(Error("PutState failed"), st, pk)
             ELSE Outcome(Success(iBytes), PutState(st, i2.Username, iBytes), pk)

\* UpdateUserData that also clears the verified flag
UpdateUserData_ResetVerified(st, args, env) ==
  LET r == UnmarshalUpdateUserDataRequest(args[1])
  IN IF Len(args) < 1 THEN Outcome(Fault, st, NoCheck)
     ELSE IF GetStateFails(env) THEN Outcome(Error("Failed to get state"), st, NoCheck)
     ELSE IF r.Username \notin DOMAIN st
     THEN Outcome(Error("Username not found"), st, NoCheck)
     ELSE LET i == UnmarshalIdentity(st[r.Username])
              pk == UpdateUserDataKey(args, i)
              err == VerifySignature(args, pk)
              i2 == [i EXCEPT !.Data = r.Data, !.Verified = ""]
              iBytes == MarshalIdentity(i2)
          IN IF err = "panic" THEN Outcome(Fault, st, NoCheck)
             ELSE IF err # "" THEN Outcome(Error("Can't verify signature"), st, NoCheck)
             ELSE IF PutStateFails(env, i2.Username)
             THEN Outcome(Error("PutState failed"), st, pk)
             ELSE Outcome(Success(iBytes), PutState(st, i2.Username, iBytes), pk)

\* UpdateUserData that writes the record back without its keys
UpdateUserData_DropKeys(st, args, env) ==
  LET r == UnmarshalUpdateUserDataRequest(args[1])
  IN IF Len(args) < 1 THEN Outcome(Fault, st, NoCheck)
     ELSE IF GetStateFails(env) THEN Outcome(Error("Failed to get state"), st, NoCheck)
     ELSE IF r.Username \notin DOMAIN st
     THEN Outcome(Error("Username not found"), st, NoCheck)
     ELSE LET i == UnmarshalIdentity(st[r.Username])
              pk == UpdateUserDataKey(args, i)
              err == VerifySignature(args, pk)
              i2 == [i EXCEPT !.Data = r.Data, !.Keys = <<>>]
              iBytes == MarshalIdentity(i2)
          IN IF err = "panic" THEN Outcome(Fault, st, NoCheck)
             ELSE IF err # "" THEN Outcome(Error("Can't verify signature"), st, NoCheck)
             ELSE IF PutStateFails(env, i2.Username)
             THEN Outcome(Error("PutState failed"), st, pk)
             ELSE Outcome(Success(iBytes), PutState(st, i2.Username, iBytes), pk)

UpdateUserData(st, args, env) ==
  LET r == UnmarshalUpdateUserDataRequest(args[1])
  IN IF Len(args) < 1 THEN Outcome(Fault, st, NoCheck)
     ELSE IF GetStateFails(env) THEN Outcome(Error("Failed to get state"), st, NoCheck)
     ELSE IF r.Username \notin DOMAIN st
     THEN Outcome(Error("Username not found"), st, NoCheck)
     ELSE LET i == UnmarshalIdentity(st[r.Username])
              pk == UpdateUserDataKey(args, i)
              err == VerifySignature(args, pk)
              i2 == [i EXCEPT !.Data = r.Data]
              iBytes == MarshalIdentity(i2)
          IN IF err = "panic" THEN Outcome(Fault, st, NoCheck)
             ELSE IF err # "" THEN Outcome(Error("Can't verify signature"), st, NoCheck)
             ELSE IF PutStateFails(env, i2.Username)
             THEN Outcome(Error("PutState failed"), st, pk)
             ELSE Outcome(Success(iBytes), PutState(st, i2.Username, iBytes), pk)

\* i.Keys = append(i.Keys, key) (line 212)
AppendKey_Replace(keys, key) == <<key>>
\* an append that replaces the entry the owner already has
AppendKey_Upsert(keys, key) ==
  IF \E n \in 1..Len(keys) : keys[n].Owner = key.Owner
  THEN [n \in 1..Len(keys) |-> IF keys[n].Owner = key.Owner THEN key ELSE keys[n]]
  ELSE Append(keys, key)
AppendKey(keys, key) == Append(keys, key)

\* the key AddKey hands to VerifySignature (line 207)
AddKeyKey_FromRequest(args, i) == UnmarshalIdentity(args[1]).SPublicKey
AddKeyKey(args, i) == i.SPublicKey

\* AddKey that writes the record before it verifies the signature
AddKey_PutBeforeVerify(st, args, env) ==
  LET r == UnmarshalAddKeyRequest(args[1])
  IN IF Len(args) < 1 THEN Outcome(Fault, st, NoCheck)
     ELSE IF GetStateFails(env) THEN Outcome(Error("Failed to get state"), st, NoCheck)
     ELSE IF r.Username \notin DOMAIN st
     THEN Outcome(Error("Username not found"), st, NoCheck)
     ELSE LET key == [Owner |-> r.Owner, Key |-> r.Key]
              i == UnmarshalIdentity(st[r.Username])
              pk == AddKeyKey(args, i)
              err == VerifySignature(args, pk)
              i2 == [i EXCEPT !.Keys = AppendKey(i.Keys, key)]
              iBytes == MarshalIdentity(i2)
              res == [Owner |-> r.Owner, Key |-> r.Key]
          IN IF PutStateFails(env, i2.Username)
             THEN Outcome(Error("PutState failed"), st, NoCheck)
             ELSE IF err = "panic" THEN Outcome(Fault, PutState(st, i2.Username, iBytes), NoCheck)
             ELSE IF err # ""
             THEN Outcome(Error("Can't verify signature"),
                          PutState(st, i2.Username, iBytes), NoCheck)
             ELSE Outcome(Success(MarshalAddKeyResponse(res)),
                          PutState(st, i2.Username, iBytes), pk)

\* AddKey that refuses an entry the record already holds
AddKey_RejectReplay(st, args, env) ==
  LET r == UnmarshalAddKeyRequest(args[1])
  IN IF Len(args) < 1 THEN Outcome(Fault, st, NoCheck)
     ELSE IF GetStateFails(env) THEN Outcome(Error("Failed to get state"), st, NoCheck)
     ELSE IF r.Username \notin DOMAIN st
     THEN Outcome(Error("Username not found"), st, NoCheck)
     ELSE LET key == [Owner |-> r.Owner, Key |-> r.Key]
              i == UnmarshalIdentity(st[r.Username])
              pk == AddKeyKey(args, i)
              err == VerifySignature(args, pk)
              i2 == [i EXCEPT !.Keys = AppendKey(i.Keys, key)]
              iBytes == MarshalIdentity(i2)
              res == [Owner |-> r.Owner, Key |-> r.Key]
          IN IF \E n \in 1..Len(i.Keys) : i.Keys[n] = key
             THEN Outcome(Error("Key already granted"), st, NoCheck)
             ELSE IF err = "panic" THEN Outcome(Fault, st, NoCheck)
             ELSE IF err # "" THEN Outcome(Error("Can't verify signature"), st, NoCheck)
             ELSE IF PutStateFails(env, i2.Username)
             THEN Outcome(Error("PutState failed"), st, pk)
             ELSE Outcome(Success(MarshalAddKeyResponse(res)),
                          PutState(st, i2.Username, iBytes), pk)

AddKey(st, args, env) ==
  LET r == UnmarshalAddKeyRequest(args[1])
  IN IF Len(args) < 1 THEN Outcome(Fault, st, NoCheck)
     ELSE IF GetStateFails(env) THEN Outcome(Error("Failed to get state"), st, NoCheck)
     ELSE IF r.Username \notin DOMAIN st
     THEN Outcome(Error("Username not found"), st, NoCheck)
     ELSE LET key == [Owner |-> r.Owner, Key |-> r.Key]
              i == UnmarshalIdentity(st[r.Username])
              pk == AddKeyKey(args, i)
              err == VerifySignature(args, pk)
              i2 == [i EXCEPT !.Keys = AppendKey(i.Keys, key)]
              iBytes == MarshalIdentity(i2)
              res == [Owner |-> r.Owner, Key |-> r.Key]
          IN IF err = "panic" THEN Outcome(Fault, st, NoCheck)
             ELSE IF err # "" THEN Outcome(Error("Can't verify signature"), st, NoCheck)
             ELSE IF PutStateFails(env, i2.Username)
             THEN Outcome(Error("PutState failed"), st, pk)
             ELSE Outcome(Success(MarshalAddKeyResponse(res)),
                          PutState(st, i2.Username, iBytes), pk)

GetPublicKey(st, args, env) ==
  LET req == UnmarshalGetPublicKeyRequest(args[1])
  IN IF Len(args) < 1 THEN Outcome(Fault, st, NoCheck)
     ELSE IF GetStateFails(env) THEN Outcome(Error("Failed to get state"), st, NoCheck)
     ELSE IF req.Username \notin DOMAIN st
     THEN Outcome(Error("Username not found"), st, NoCheck)
     ELSE LET i == UnmarshalIdentity(st[req.Username])
              res == [PublicKey |-> i.PublicKey, EPublicKey |-> i.EPublicKey]
          IN Outcome(Success(MarshalGetPublicKeyResponse(res)), st, NoCheck)

\* a loop that stops at the first entry of the owner
RECURSIVE FirstFrom(_, _, _)
FirstFrom(keys, owner, m) ==
  IF m > Len(keys) THEN ""
  ELSE IF keys[m].Owner = owner THEN keys[m].Key
  ELSE FirstFrom(keys, owner, m + 1)
KeyResult_First(keys, owner, n) == FirstFrom(keys, owner, 1)

\* the loop of lines 300-306: keyResult after ranging over the first n keys
RECURSIVE KeyResult(_, _, _)
KeyResult(keys, owner, n) ==
  IF n = 0 THEN ""
  ELSE IF keys[n].Owner = owner THEN keys[n].Key
  ELSE KeyResult(keys, owner, n - 1)

\* GetUserData that answers only a request signed with the stored key
GetUserData_Signed(st, args, env) ==
  LET req == UnmarshalGetUserDataRequest(args[1])
  IN IF Len(args) < 1 THEN Outcome(Fault, st, NoCheck)
     ELSE IF GetStateFails(env) THEN Outcome(Error("Failed to get state"), st, NoCheck)
     ELSE IF req.Username \notin DOMAIN st
     THEN Outcome(Error("Username not found"), st, NoCheck)
     ELSE LET i == UnmarshalIdentity(st[req.Username])
              err == VerifySignature(args, i.SPublicKey)
              keyResult == KeyResult(i.Keys, req.Owner, Len(i.Keys))
              res == [PublicKey |-> i.PublicKey, EPublicKey |-> i.EPublicKey,
                      SPublicKey |-> i.SPublicKey, Data |-> i.Data,
                      Key |-> keyResult]
          IN IF err = "panic" THEN Outcome(Fault, st, NoCheck)
             ELSE IF err # "" THEN Outcome(Error("Can't verify signature"), st, NoCheck)
             ELSE Outcome(Success(MarshalGetUserDataResponse(res)), st, i.SPublicKey)

GetUserData(st, args, env) ==
  LET req == UnmarshalGetUserDataRequest(args[1])
  IN IF Len(args) < 1 THEN Outcome(Fault, st, NoCheck)
     ELSE IF GetStateFails(env) THEN Outcome(Error("Failed to get state"), st, NoCheck)
     ELSE IF req.Username \notin DOMAIN st
     THEN Outcome(Error("Username not found"), st, NoCheck)
     ELSE LET i == UnmarshalIdentity(st[req.Username])
              keyResult == KeyResult(i.Keys, req.Owner, Len(i.Keys))
              res == [PublicKey |-> i.PublicKey, EPublicKey |-> i.EPublicKey,
                      SPublicKey |-> i.SPublicKey, Data |-> i.Data,
                      Key |-> keyResult]
          IN Outcome(Success(MarshalGetUserDataResponse(res)), st, NoCheck)

\* the last two lines of Invoke: the message is built from args[0]
UnknownAction(st, args) ==
  IF Len(args) < 1 THEN Outcome(Fault, st, NoCheck)
  ELSE Outcome(ErrorNaming("Unknown action, check the first argument. But got: ",
                           args[1]), st, NoCheck)

Invoke(st, function, args, env) ==
  IF function = "Register" THEN Register(st, args, env)
  ELSE IF function = "UpdateUserData" THEN UpdateUserData(st, args, env)
  ELSE IF function = "AddKey" THEN AddKey(st, args, env)
  ELSE IF function = "GetPublicKey" THEN GetPublicKey(st, args, env)
  ELSE IF function = "GetUserData" THEN GetUserData(st, args, env)
  ELSE UnknownAction(st, args)

(***************************************************************************)
(* Inputs of the model: the request bodies, signatures and argument lists  *)
(* the invocations are drawn from.  A call is <<args, env>>.               *)
(***************************************************************************)
Usernames == {"alice", "bob"}

\* the identities submitted to Register; the third has a signing key that
\* is not RSA and a verified member that is the JSON literal true
Profile1 ==
  [publicKey |-> "p1", ePublicKey |-> "e1", sPublicKey |-> "K1",
   data |-> "d1", verified |-> "yes"]
Profile2 ==
  [publicKey |-> "p2", ePublicKey |-> "e2", sPublicKey |-> "K2",
   data |-> "d2", verified |-> "no"]
Profile3 ==
  [publicKey |-> "p1", ePublicKey |-> "e2", sPublicKey |-> ECKey,
   data |-> "d1", verified |-> JTrue]

\* the grants submitted to AddKey, as <<owner, key>>
Grants == { <<"bob", "k1">>, <<"bob", "k2">>, <<"carol", "k1">> }
Owners == {"bob", "carol"}
Datas == {"d1", "d2"}

\* a text that is not JSON
Malformed == [EmptyJson EXCEPT !.syntax = FALSE, !.raw = "not json"]
\* the text that consists of the characters of name
TextOf(name) == [EmptyJson EXCEPT !.syntax = FALSE, !.raw = name]

RegisterPayload(u, pf, ks) ==
  [EmptyJson EXCEPT !.username = u, !.publicKey = pf.publicKey,
                    !.ePublicKey = pf.ePublicKey, !.sPublicKey = pf.sPublicKey,
                    !.data = pf.data, !.verified = pf.verified, !.keys = ks]
\* bk is the sPublicKey member the body carries (Absent if none)
UpdateUserDataPayload(u, d, bk) ==
  [EmptyJson EXCEPT !.username = u, !.data = d, !.sPublicKey = bk]
AddKeyPayload(u, g, bk) ==
  [EmptyJson EXCEPT !.username = u, !.owner = g[1], !.key = g[2],
                    !.sPublicKey = bk]
GetPublicKeyPayload(u) == [EmptyJson EXCEPT !.username = u]
GetUserDataPayload(u, o) == [EmptyJson EXCEPT !.username = u, !.owner = o]

\* the same members in another serialization (member order, white space)
Reserialized(p) == [p EXCEPT !.form = 1 - @]
\* a body with another data or key value
Swap(tok) ==
  IF tok = "d1" THEN "d2" ELSE IF tok = "d2" THEN "d1"
  ELSE IF tok = "k1" THEN "k2" ELSE IF tok = "k2" THEN "k1" ELSE tok
Tampered(p) == [p EXCEPT !.data = Swap(@), !.key = Swap(@)]

\* argument lists for body p: every signature variant, or the proper
\* signatures of the two RSA keys only
AllSigned(p) ==
  { <<p>>, <<p, NotHex>>, <<p, Sign("K1", p)>>, <<p, Sign("K2", p)>>,
    <<p, Sign("K1", Reserialized(p))>>, <<p, Sign("K2", Tampered(p))>> }
WellSigned(p) == { <<p, Sign("K1", p)>>, <<p, Sign("K2", p)>> }
QueryArgs(p) == { <<p>>, <<p, NotHex>>, <<p, Sign("K1", p)>> }

Ok(argss) == {<<args, "ok">> : args \in argss}

RegisterCalls ==
  Ok({ <<RegisterPayload(u, pf, <<>>)>> : u \in Usernames, pf \in {Profile1, Profile2} })
    \cup Ok({ <<RegisterPayload("alice", Profile3, <<>>)>>,
              <<RegisterPayload("alice", Profile1, <<[for |-> "bob", key |-> "k1"]>>)>>,
              <<Malformed>>, <<>> })
    \cup { <<<<RegisterPayload("bob", Profile2, <<>>)>>, "putErr">> }

UpdateUserDataCalls ==
  Ok(UNION { AllSigned(UpdateUserDataPayload("alice", d, Absent)) : d \in Datas })
    \cup Ok(WellSigned(UpdateUserDataPayload("alice", "d1", "K2")))
    \cup Ok(WellSigned(UpdateUserDataPayload("bob", "d2", Absent)))
    \cup Ok({ <<Malformed, Sign("K1", Malformed)>>, <<>> })
    \cup { <<<<UpdateUserDataPayload("alice", "d2", Absent),
               Sign("K1", UpdateUserDataPayload("alice", "d2", Absent))>>, env>> :
           env \in {"getErr", "putErr"} }

AddKeyCalls ==
  Ok(UNION { AllSigned(AddKeyPayload("alice", g, Absent)) : g \in Grants })
    \cup Ok(WellSigned(AddKeyPayload("alice", <<"bob", "k2">>, "K2")))
    \cup Ok(WellSigned(AddKeyPayload("bob", <<"carol", "k1">>, Absent)))
    \cup Ok({ <<Malformed, Sign("K1", Malformed)>>, <<>> })
    \cup { <<<<AddKeyPayload("alice", <<"bob", "k1">>, Absent),
               Sign("K1", AddKeyPayload("alice", <<"bob", "k1">>, Absent))>>, env>> :
           env \in {"getErr", "putErr"} }

GetPublicKeyCalls ==
  Ok(QueryArgs(GetPublicKeyPayload("alice")))
    \cup Ok({ <<GetPublicKeyPayload("bob")>>, <<Malformed>>, <<>> })
    \cup { <<<<GetPublicKeyPayload("alice")>>, "getErr">> }

GetUserDataCalls ==
  Ok(UNION { QueryArgs(GetUserDataPayload("alice", o)) : o \in Owners })
    \cup Ok({ <<GetUserDataPayload("bob", "carol")>>, <<Malformed>>, <<>> })
    \cup { <<<<GetUserDataPayload("alice", "bob")>>, "getErr">> }

\* function names Invoke knows, and the <<function, call>> pairs submitted
\* with a name it does not know
Handlers == {"Register", "UpdateUserData", "AddKey", "GetPublicKey", "GetUserData"}
UnknownCalls ==
  { <<"Delete", <<<<>>, "ok">> >>,
    <<"Delete", <<<<GetPublicKeyPayload("alice")>>, "ok">> >>,
    <<"Delete", <<<<TextOf("Delete")>>, "ok">> >>,
    <<"register", <<<<RegisterPayload("alice", Profile1, <<>>)>>, "ok">> >> }

RECURSIVE SumKeys(_, _)
SumKeys(st, ks) ==
  IF ks = {} THEN 0
  ELSE LET k == CHOOSE x \in ks : TRUE
       IN Len(st[k].keys) + SumKeys(st, ks \ {k})
TotalKeys(st) == SumKeys(st, DOMAIN st)

(***************************************************************************)
(* The state machine: store is the ledger state, pre the ledger state      *)
(* before the last invocation, last the last invocation and its outcome,   *)
(* registered the body of the last successful Register of each username.   *)
(***************************************************************************)
NoInvocation ==
  [function |-> "", args |-> <<>>, env |-> "ok", resp |-> Success(EmptyJson),
   checked |-> NoCheck]

\* the invocations that run concurrently, and one that has not started:
\* snap is what its GetState returned, readAt and writeAt the steps at which
\* it read the ledger and at which it finished
Txs == {1, 2}
NoTx ==
  [phase |-> "idle", function |-> "", args |-> <<>>, snap |-> <<>>,
   resp |-> Success(EmptyJson), readAt |-> 0, writeAt |-> 0]

Init ==
  /\ store = <<>>
  /\ pre = <<>>
  /\ last = NoInvocation
  /\ registered = <<>>
  /\ txs = [t \in Txs |-> NoTx]

Step(function, call) ==
  \E o \in {Invoke(store, function, call[1], call[2])} :
     /\ TotalKeys(o.store) <= MaxKeys
     /\ store' = o.store
     /\ pre' = store
     /\ last' = [function |-> function, args |-> call[1], env |-> call[2],
                 resp |-> o.resp, checked |-> o.checked]
     /\ registered' =
          IF function = "Register" /\ o.resp.status = "Success"
          THEN PutState(registered, Str(call[1][1].username), call[1][1])
          ELSE registered
     /\ UNCHANGED txs

InvokeRegister == \E call \in RegisterCalls : Step("Register", call)

InvokeUpdateUserData == \E call \in UpdateUserDataCalls : Step("UpdateUserData", call)

InvokeAddKey == \E call \in AddKeyCalls : Step("AddKey", call)

InvokeGetPublicKey == \E call \in GetPublicKeyCalls : Step("GetPublicKey", call)

InvokeGetUserData == \E call \in GetUserDataCalls : Step("GetUserData", call)

InvokeUnknown == \E fc \in UnknownCalls : Step(fc[1], fc[2])

Next ==
  \/ InvokeRegister
  \/ InvokeUpdateUserData
  \/ InvokeAddKey
  \/ InvokeGetPublicKey
  \/ InvokeGetUserData
  \/ InvokeUnknown

Spec == Init /\ [][Next]_vars

TypeOK == DOMAIN store \subseteq Usernames

(***************************************************************************)
(* Vocabulary of the properties.                                           *)
(***************************************************************************)
\* the username the last invocation's body names ("" if it names none)
ReqUsername ==
  IF Len(last.args) >= 1 /\ last.args[1].syntax
  THEN Str(last.args[1].username) ELSE ""

\* sig is a signature over text msg that verifies under public key pk
ValidSignature(sig, msg, pk) ==
  sig.hex /\ pk \in RSAKeys /\ sig.signer = pk /\ sig.msg = msg

\* the last invocation carries a signature that verifies under pk
SignedUnder(pk) ==
  Len(last.args) >= 2 /\ ValidSignature(last.args[2], last.args[1], pk)

Mutating == {"UpdateUserData", "AddKey"}
Queries == {"GetPublicKey", "GetUserData"}

IsPrefix(a, b) == Len(a) <= Len(b) /\ SubSeq(b, 1, Len(a)) = a

\* the identity members of a JSON text
IdentityMembers(j) ==
  <<j.username, j.publicKey, j.ePublicKey, j.sPublicKey, j.data, j.verified>>

\* every record but that of username u is as before the last invocation
OthersUnchanged(u) ==
  /\ DOMAIN store \ {u} = DOMAIN pre \ {u}
  /\ \A v \in DOMAIN pre \ {u} : store[v] = pre[v]

\* the indices of the entries of keys granted to owner
Matches(keys, owner) == {n \in 1..Len(keys) : keys[n].for = owner}
\* the key of the last entry granted to owner, "" if there is none
LastMatch(keys, owner) ==
  IF Matches(keys, owner) = {} THEN ""
  ELSE keys[CHOOSE n \in Matches(keys, owner) :
              \A m \in Matches(keys, owner) : m <= n].key

(***************************************************************************)
(* C1: an UpdateUserData or AddKey on an existing username whose signature *)
(* does not verify against the sPublicKey of the stored record returns an  *)
(* error and leaves the store unchanged, also when the signature verifies  *)
(* against the sPublicKey carried in the request body.                     *)
(***************************************************************************)
C1_StoredKeyDecides ==
  ( /\ last.function \in Mutating
    /\ Len(last.args) = 2
    /\ ReqUsername \in DOMAIN pre
    /\ ~SignedUnder(pre[ReqUsername].sPublicKey) )
  => (last.resp.status = "Error" /\ store = pre)

\* a rejected call whose signature verifies under the key in its own body
C1_Witness ==
  /\ last.function \in Mutating
  /\ ReqUsername \in DOMAIN pre
  /\ pre[ReqUsername].sPublicKey \in RSAKeys
  /\ pre[ReqUsername].sPublicKey # Str(last.args[1].sPublicKey)
  /\ SignedUnder(Str(last.args[1].sPublicKey))
  /\ last.resp.status = "Error"
  /\ store = pre

(***************************************************************************)
(* C2.  As stated: every change to the stored data or keys of an identity  *)
(* follows, in the same invocation, a successful signature check against   *)
(* the sPublicKey stored for that identity before the change.              *)
(***************************************************************************)
DataOrKeysChanged(u) ==
  /\ u \in DOMAIN pre
  /\ u \in DOMAIN store
  /\ (store[u].data # pre[u].data \/ store[u].keys # pre[u].keys)

CheckedAgainstStored(u) ==
  /\ last.checked = pre[u].sPublicKey
  /\ SignedUnder(pre[u].sPublicKey)

C2_Original ==
  \A u \in Usernames : DataOrKeysChanged(u) => CheckedAgainstStored(u)

\* C2 amended: every change to the stored data or keys of an identity made
\* by UpdateUserData or AddKey follows a successful signature check against
\* the sPublicKey stored before the change; Register is the only other
\* operation that changes them, and it checks no signature.
C2_ChangesAreSigned ==
  \A u \in Usernames :
    DataOrKeysChanged(u) =>
      \/ last.function \in Mutating /\ CheckedAgainstStored(u)
      \/ last.function = "Register" /\ last.checked = NoCheck

\* a change accepted under the stored key while the body carries another key
C2_Witness ==
  /\ last.function \in Mutating
  /\ DataOrKeysChanged(ReqUsername)
  /\ Str(last.args[1].sPublicKey) \in RSAKeys
  /\ Str(last.args[1].sPublicKey) # pre[ReqUsername].sPublicKey

(***************************************************************************)
(* C3.  As stated: in each step of any of the five operations the keys a   *)
(* username held before the step is a prefix of the keys it holds after.   *)
(***************************************************************************)
KeysGrow(u) ==
  u \in DOMAIN pre => (u \in DOMAIN store /\ IsPrefix(pre[u].keys, store[u].keys))

C3_Original == \A u \in Usernames : KeysGrow(u)

\* C3 amended: the keys of a username never shrink in a step of
\* UpdateUserData, AddKey, GetPublicKey or GetUserData; a Register of an
\* existing username resets its keys to the empty sequence.
C3_KeysNeverShrink ==
  \A u \in Usernames :
    /\ last.function # "Register" => KeysGrow(u)
    /\ (last.function = "Register" /\ store # pre /\ u = ReqUsername)
         => store[u].keys = <<>>

\* an AddKey that appended to keys that were not empty
C3_Witness ==
  /\ last.function = "AddKey"
  /\ last.resp.status = "Success"
  /\ Len(pre[ReqUsername].keys) >= 1
  /\ Len(store[ReqUsername].keys) = Len(pre[ReqUsername].keys) + 1

(***************************************************************************)
(* C4.  As stated: after a Register whose put succeeds the record stored   *)
(* under the body's username has empty keys whatever keys the body         *)
(* carried, carries username, publicKey, ePublicKey, sPublicKey, data and  *)
(* verified exactly as submitted, and the response is that stored record.  *)
(***************************************************************************)
RegisterSucceeded == last.function = "Register" /\ last.resp.status = "Success"

C4_Original ==
  RegisterSucceeded =>
    /\ ReqUsername \in DOMAIN store
    /\ store[ReqUsername].keys = <<>>
    /\ IdentityMembers(store[ReqUsername]) = IdentityMembers(last.args[1])
    /\ last.resp.payload = store[ReqUsername]

\* what a stored string member holds for a submitted member
AsStored(tok) == IF tok = Absent \/ tok = JTrue THEN "" ELSE tok

\* C4 amended: after a Register whose put succeeds the stored record has
\* empty keys whatever keys the body carried, carries each of username,
\* publicKey, ePublicKey, sPublicKey, data and verified as submitted when it
\* was submitted as a JSON string and as the empty string when it was
\* missing or not a JSON string, and the response is that stored record.
C4_RegisterStores ==
  RegisterSucceeded =>
    /\ ReqUsername \in DOMAIN store
    /\ store[ReqUsername].keys = <<>>
    /\ IdentityMembers(store[ReqUsername]) =
         [n \in 1..6 |-> AsStored(IdentityMembers(last.args[1])[n])]
    /\ last.resp.payload = store[ReqUsername]

\* a Register whose body carried keys
C4_Witness ==
  /\ RegisterSucceeded
  /\ last.args[1].keys # <<>>
  /\ store[ReqUsername].keys = <<>>
  /\ store[ReqUsername].publicKey = last.args[1].publicKey

(***************************************************************************)
(* C5: a Register of a username that already has a record needs no         *)
(* signature and replaces the record entirely (keys empty, every member    *)
(* the newly submitted one); the records of the other usernames are        *)
(* unchanged.                                                              *)
(***************************************************************************)
C5_ReRegisterReplaces ==
  ( /\ last.function = "Register"
    /\ Len(last.args) >= 1
    /\ last.env = "ok"
    /\ ReqUsername \in DOMAIN pre )
  => /\ last.resp.status = "Success"
     /\ last.checked = NoCheck
     /\ store[ReqUsername].keys = <<>>
     /\ store[ReqUsername].data = AsStored(last.args[1].data)
     /\ store[ReqUsername].sPublicKey = AsStored(last.args[1].sPublicKey)
     /\ store[ReqUsername].publicKey = AsStored(last.args[1].publicKey)
     /\ store[ReqUsername].ePublicKey = AsStored(last.args[1].ePublicKey)
     /\ store[ReqUsername].verified = AsStored(last.args[1].verified)
     /\ OthersUnchanged(ReqUsername)

\* an unsigned Register that replaced keys, data and signing key while
\* another username held a record
C5_Witness ==
  /\ RegisterSucceeded
  /\ Len(last.args) = 1
  /\ ReqUsername \in DOMAIN pre
  /\ pre[ReqUsername].keys # <<>>
  /\ pre[ReqUsername].data # store[ReqUsername].data
  /\ pre[ReqUsername].sPublicKey # store[ReqUsername].sPublicKey
  /\ DOMAIN pre \ {ReqUsername} # {}

(***************************************************************************)
(* C6: GetUserData on an existing username returns the stored publicKey,   *)
(* ePublicKey, sPublicKey and data with the key of the last entry of the   *)
(* stored keys whose owner is the requested owner, and success with an     *)
(* empty key when no entry matches; directly after a successful            *)
(* AddKey(username, owner, k) it returns k.                                *)
(***************************************************************************)
C6_GetUserDataLastMatch ==
  /\ ( /\ last.function = "GetUserData"
       /\ Len(last.args) >= 1
       /\ last.env = "ok"
       /\ ReqUsername \in DOMAIN pre )
     => /\ last.resp.status = "Success"
        /\ last.resp.payload.publicKey = pre[ReqUsername].publicKey
        /\ last.resp.payload.ePublicKey = pre[ReqUsername].ePublicKey
        /\ last.resp.payload.sPublicKey = pre[ReqUsername].sPublicKey
        /\ last.resp.payload.data = pre[ReqUsername].data
        /\ last.resp.payload.key =
             LastMatch(pre[ReqUsername].keys, Str(last.args[1].owner))
  /\ (last.function = "AddKey" /\ last.resp.status = "Success")
     => GetUserData(store,
                    <<GetUserDataPayload(ReqUsername, Str(last.args[1].owner))>>,
                    "ok").resp.payload.key = Str(last.args[1].key)

\* a query whose owner has an older entry with another key
C6_Witness ==
  /\ last.function = "GetUserData"
  /\ last.resp.status = "Success"
  /\ \E m, n \in Matches(pre[ReqUsername].keys, Str(last.args[1].owner)) :
       /\ m < n
       /\ pre[ReqUsername].keys[m].key # pre[ReqUsername].keys[n].key
       /\ last.resp.payload.key = pre[ReqUsername].keys[n].key

(***************************************************************************)
(* C7: an invocation that returns an Error response leaves the whole store *)
(* as it was; a handler writes at most one key, and only when it succeeds. *)
(* An AddKey whose signature was made over another payload returns an      *)
(* error and appends nothing.                                              *)
(***************************************************************************)
Written ==
  {k \in DOMAIN store \cup DOMAIN pre :
     k \notin DOMAIN pre \/ k \notin DOMAIN store \/ store[k] # pre[k]}

C7_ErrorsLeaveStore ==
  /\ last.resp.status = "Error" => store = pre
  /\ store # pre => (last.resp.status = "Success" /\ Cardinality(Written) = 1)
  /\ ( /\ last.function = "AddKey"
       /\ Len(last.args) = 2
       /\ last.args[2].msg # last.args[1] )
     => (last.resp.status = "Error" /\ store = pre)

\* an AddKey signed with the stored key, but over another payload
C7_Witness ==
  /\ last.function = "AddKey"
  /\ Len(last.args) = 2
  /\ ReqUsername \in DOMAIN pre
  /\ last.args[2].hex
  /\ last.args[2].signer = pre[ReqUsername].sPublicKey
  /\ last.args[2].msg # last.args[1]
  /\ last.resp.status = "Error"
  /\ store = pre

(***************************************************************************)
(* C8: UpdateUserData, AddKey, GetPublicKey and GetUserData on a username  *)
(* that has no stored record (GetState answering that it has none) return  *)
(* the not-found error and leave the store unchanged, whatever the         *)
(* signature argument is; no record is created.                            *)
(***************************************************************************)
C8_NotFound ==
  ( /\ last.function \in Mutating \cup Queries
    /\ Len(last.args) >= 1
    /\ last.env # "getErr"
    /\ ReqUsername \notin DOMAIN pre )
  => (last.resp = Error("Username not found") /\ store = pre)

\* a properly signed mutation of a username that has no record
C8_Witness ==
  /\ last.function \in Mutating
  /\ ReqUsername \in Usernames
  /\ ReqUsername \notin DOMAIN pre
  /\ SignedUnder(last.args[2].signer)
  /\ last.resp = Error("Username not found")
  /\ ReqUsername \notin DOMAIN store

(***************************************************************************)
(* C9: after a successful Register of u with publicKey p and ePublicKey e, *)
(* GetPublicKey(u) returns exactly {p, e}, in every state until u is       *)
(* registered again, whatever UpdateUserData and AddKey did in between.    *)
(***************************************************************************)
PublicKeysOf(j) ==
  [EmptyJson EXCEPT !.publicKey = j.publicKey, !.ePublicKey = j.ePublicKey]

C9_RoundTrip ==
  /\ ( /\ last.function = "GetPublicKey"
       /\ Len(last.args) >= 1
       /\ last.env = "ok"
       /\ ReqUsername \in DOMAIN pre )
     => last.resp = Success(PublicKeysOf(registered[ReqUsername]))
  /\ \A u \in DOMAIN store :
       GetPublicKey(store, <<GetPublicKeyPayload(u)>>, "ok").resp
         = Success(PublicKeysOf(registered[u]))

\* a query of a username whose data and keys changed since its Register
C9_Witness ==
  /\ last.function = "GetPublicKey"
  /\ last.resp.status = "Success"
  /\ store[ReqUsername].data # registered[ReqUsername].data
  /\ store[ReqUsername].keys # <<>>
  /\ last.resp.payload.publicKey = registered[ReqUsername].publicKey

(***************************************************************************)
(* C10: GetPublicKey and GetUserData check no signature: their response is *)
(* the same whether args[1] is absent, not hexadecimal or a valid          *)
(* signature, and they never write to the store.                           *)
(***************************************************************************)
C10_QueriesUnsigned ==
  (last.function \in Queries /\ Len(last.args) >= 1)
  => /\ store = pre
     /\ last.checked = NoCheck
     /\ \A rest \in { <<>>, <<NotHex>> }
                      \cup { <<Sign(k, last.args[1])>> : k \in RSAKeys } :
          Invoke(pre, last.function, <<last.args[1]>> \o rest, last.env).resp
            = last.resp

\* a query answered although its args[1] is not a signature
C10_Witness ==
  /\ last.function = "GetUserData"
  /\ Len(last.args) = 2
  /\ ~last.args[2].hex
  /\ last.resp.status = "Success"
  /\ last.resp.payload.sPublicKey \in RSAKeys

(***************************************************************************)
(* C11: the dispatcher runs exactly one handler when the function name is  *)
(* exactly one of the five names; for any other name it runs no handler,   *)
(* leaves the store unchanged and returns an error response whose message  *)
(* names the received function value.                                      *)
(***************************************************************************)
HandlerOutcome(function) ==
  IF function = "Register" THEN Register(pre, last.args, last.env)
  ELSE IF function = "UpdateUserData" THEN UpdateUserData(pre, last.args, last.env)
  ELSE IF function = "AddKey" THEN AddKey(pre, last.args, last.env)
  ELSE IF function = "GetPublicKey" THEN GetPublicKey(pre, last.args, last.env)
  ELSE GetUserData(pre, last.args, last.env)

C11_Dispatch ==
  /\ last.function \in Handlers
     => /\ last.resp = HandlerOutcome(last.function).resp
        /\ store = HandlerOutcome(last.function).store
  /\ last.function \notin Handlers \cup {""}
     => /\ store = pre
        /\ last.resp.status = "Error"
        /\ last.resp.names = <<TextOf(last.function)>>

(***************************************************************************)
(* C12: there is exactly one Identity per username: the record stored      *)
(* under key k has username k, UpdateUserData and AddKey write their       *)
(* result back under that same key, and the username of a record never     *)
(* changes.                                                                *)
(***************************************************************************)
C12_OnePerUsername ==
  /\ \A k \in DOMAIN store : store[k].username = k
  /\ \A k \in DOMAIN pre \cap DOMAIN store : store[k].username = pre[k].username
  /\ (last.function \in Mutating /\ last.resp.status = "Success")
       => (ReqUsername \in DOMAIN store /\ Written \subseteq {ReqUsername})

\* an accepted mutation of one of two stored identities
C12_Witness ==
  /\ last.function \in Mutating
  /\ last.resp.status = "Success"
  /\ Cardinality(DOMAIN store) = 2
  /\ store[ReqUsername] # pre[ReqUsername]
  /\ store[ReqUsername].username = ReqUsername

(***************************************************************************)
(* C13: an identity is never deleted: a username that has a stored record  *)
(* has one in every later state.                                           *)
(***************************************************************************)
C13_NeverDeleted ==
  /\ DOMAIN pre \subseteq DOMAIN store
  /\ DOMAIN registered \subseteq DOMAIN store

\* a Register of a second username while the first one holds a record
C13_Witness ==
  /\ RegisterSucceeded
  /\ ReqUsername \notin DOMAIN pre
  /\ DOMAIN pre # {}
  /\ DOMAIN store = DOMAIN pre \cup {ReqUsername}

(***************************************************************************)
(* C14.  As stated: no invocation of any of the five operations changes    *)
(* the stored verified value of an already existing identity.              *)
(***************************************************************************)
VerifiedKept(u) == store[u].verified = pre[u].verified

C14_Original == \A u \in DOMAIN pre \cap DOMAIN store : VerifiedKept(u)

\* C14 amended: no invocation of UpdateUserData, AddKey, GetPublicKey or
\* GetUserData changes the stored verified value of an already existing
\* identity; a Register of an existing username replaces it with the
\* verified value of its body.
C14_VerifiedKept ==
  \A u \in DOMAIN pre \cap DOMAIN store :
    \/ VerifiedKept(u)
    \/ /\ last.function = "Register"
       /\ u = ReqUsername
       /\ store[u].verified = AsStored(last.args[1].verified)

\* an accepted UpdateUserData of an identity whose verified is set
C14_Witness ==
  /\ last.function = "UpdateUserData"
  /\ last.resp.status = "Success"
  /\ store[ReqUsername].data # pre[ReqUsername].data
  /\ pre[ReqUsername].verified = "yes"
  /\ store[ReqUsername].verified = "yes"

(***************************************************************************)
(* C15: a successful UpdateUserData(username, data) replaces only the data *)
(* member of that username's record with the submitted data; the other     *)
(* members, the keys and the records of the other usernames are unchanged, *)
(* and the response is the updated record.                                 *)
(***************************************************************************)
C15_UpdateOnlyData ==
  (last.function = "UpdateUserData" /\ last.resp.status = "Success")
  => /\ ReqUsername \in DOMAIN pre
     /\ store[ReqUsername] =
          [pre[ReqUsername] EXCEPT !.data = AsStored(last.args[1].data)]
     /\ OthersUnchanged(ReqUsername)
     /\ last.resp.payload = store[ReqUsername]

\* an update of an identity that holds keys, next to another identity
C15_Witness ==
  /\ last.function = "UpdateUserData"
  /\ last.resp.status = "Success"
  /\ pre[ReqUsername].keys # <<>>
  /\ store[ReqUsername].data # pre[ReqUsername].data
  /\ store[ReqUsername].data = last.args[1].data
  /\ DOMAIN pre \ {ReqUsername} # {}

(***************************************************************************)
(* C16: an AddKey(username, owner, key) whose signature verifies against   *)
(* the stored sPublicKey succeeds, echoes {owner, key} and makes the       *)
(* stored keys the previous keys with {owner, key} appended, also when the *)
(* owner already has entries; nothing else changes.                        *)
(***************************************************************************)
C16_AddKeyAppends ==
  ( /\ last.function = "AddKey"
    /\ last.env = "ok"
    /\ ReqUsername \in DOMAIN pre
    /\ SignedUnder(pre[ReqUsername].sPublicKey) )
  => /\ last.resp =
          Success([EmptyJson EXCEPT !.owner = AsStored(last.args[1].owner),
                                    !.key = AsStored(last.args[1].key)])
     /\ store[ReqUsername] =
          [pre[ReqUsername] EXCEPT
             !.keys = Append(@, [for |-> AsStored(last.args[1].owner),
                                 key |-> AsStored(last.args[1].key)])]
     /\ OthersUnchanged(ReqUsername)

\* a grant to an owner who already had an entry with another key
C16_Witness ==
  /\ last.function = "AddKey"
  /\ last.resp.status = "Success"
  /\ \E n \in 1..Len(pre[ReqUsername].keys) :
       /\ pre[ReqUsername].keys[n].for = last.args[1].owner
       /\ pre[ReqUsername].keys[n].key # last.args[1].key
       /\ store[ReqUsername].keys[n] = pre[ReqUsername].keys[n]
  /\ Len(store[ReqUsername].keys) = Len(pre[ReqUsername].keys) + 1

(***************************************************************************)
(* C17: the signed message of a mutating call is the raw args[0]: a        *)
(* signature over payload P authorizes only an invocation whose args[0] is *)
(* P itself; an args[0] that decodes to the same members but differs from  *)
(* P is rejected with the authentication error and no state change.        *)
(***************************************************************************)
C17_RawPayloadSigned ==
  /\ (last.function \in Mutating /\ last.resp.status = "Success")
       => (last.args[2].hex /\ last.args[2].msg = last.args[1])
  /\ ( /\ last.function \in Mutating
       /\ Len(last.args) = 2
       /\ last.env # "getErr"
       /\ ReqUsername \in DOMAIN pre
       /\ last.args[2].msg # last.args[1] )
     => (last.resp = Error("Can't verify signature") /\ store = pre)

\* a call signed with the stored key over another serialization of its body
C17_Witness ==
  /\ last.function \in Mutating
  /\ Len(last.args) = 2
  /\ ReqUsername \in DOMAIN pre
  /\ last.args[2].hex
  /\ last.args[2].signer = pre[ReqUsername].sPublicKey
  /\ last.args[2].msg # last.args[1]
  /\ UnmarshalIdentity(last.args[2].msg) = UnmarshalIdentity(last.args[1])
  /\ last.resp = Error("Can't verify signature")
  /\ store = pre

(***************************************************************************)
(* C19: acceptance of a mutating call depends only on args[0], args[1] and *)
(* the stored sPublicKey: an accepted (payload, signature) pair is         *)
(* accepted again wherever the username exists with the same sPublicKey,   *)
(* a replayed AddKey appends a further identical entry and a replayed      *)
(* UpdateUserData sets data to the replayed value.                         *)
(***************************************************************************)
SignedCalls ==
  {<<"UpdateUserData", c[1]>> : c \in {x \in UpdateUserDataCalls : Len(x[1]) = 2}}
    \cup {<<"AddKey", c[1]>> : c \in {x \in AddKeyCalls : Len(x[1]) = 2}}

UsernameOf(args) == IF args[1].syntax THEN Str(args[1].username) ELSE ""

C19_ReplayAccepted ==
  /\ \A fa \in SignedCalls :
       LET o == Invoke(store, fa[1], fa[2], "ok")
           u == UsernameOf(fa[2])
       IN /\ o.resp.status = "Success"
               <=> /\ u \in DOMAIN store
                   /\ ValidSignature(fa[2][2], fa[2][1], store[u].sPublicKey)
          /\ (o.resp.status = "Success" /\ fa[1] = "UpdateUserData")
               => o.store[u].data = AsStored(fa[2][1].data)
  /\ (last.function \in Mutating /\ last.resp.status = "Success")
       => LET o == Invoke(store, last.function, last.args, "ok")
              ks == store[ReqUsername].keys
          IN /\ o.resp = last.resp
             /\ last.function = "AddKey"
                  => o.store[ReqUsername].keys = Append(ks, ks[Len(ks)])
             /\ last.function = "UpdateUserData" => o.store = store

\* an AddKey accepted a second time: the keys end with two identical entries
C19_Witness ==
  /\ last.function = "AddKey"
  /\ last.resp.status = "Success"
  /\ last.args[1].sPublicKey = Absent
  /\ Len(pre[ReqUsername].keys) >= 1
  /\ pre[ReqUsername].keys[Len(pre[ReqUsername].keys)]
       = [for |-> last.args[1].owner, key |-> last.args[1].key]
  /\ store[ReqUsername].keys
       = Append(pre[ReqUsername].keys, pre[ReqUsername].keys[Len(pre[ReqUsername].keys)])

(***************************************************************************)
(* C20: UpdateUserData or AddKey invoked with only args[0] never changes   *)
(* the store: on an existing username the invocation faults while reading  *)
(* args[1], on a nonexistent username it returns the not-found error       *)
(* without faulting; an unknown function invoked with an empty argument    *)
(* list faults instead of returning the unknown-function error.            *)
(***************************************************************************)
C20_MissingSignature ==
  /\ (last.function \in Mutating /\ Len(last.args) = 1)
       => /\ store = pre
          /\ last.env # "getErr"
               => last.resp = IF ReqUsername \in DOMAIN pre
                              THEN Fault ELSE Error("Username not found")
  /\ (last.function \notin Handlers \cup {""} /\ Len(last.args) = 0)
       => (last.resp = Fault /\ store = pre)

\* a mutation of an existing username sent without its signature
C20_Witness ==
  /\ last.function \in Mutating
  /\ Len(last.args) = 1
  /\ ReqUsername \in DOMAIN pre
  /\ last.resp = Fault
  /\ store = pre

(***************************************************************************)
(* Concurrent invocations.  A mutating handler is a GetState (lines 145,   *)
(* 191) followed later by a PutState (lines 164, 215) with no lock in      *)
(* between; the ledger is taken to apply each PutState as it comes (last   *)
(* writer wins).  Two invocations run against a ledger on which alice is   *)
(* registered; their steps interleave freely.                              *)
(***************************************************************************)
ConcCalls ==
  { <<"UpdateUserData", <<p, Sign("K1", p)>>>> :
      p \in {UpdateUserDataPayload("alice", d, Absent) : d \in Datas} }
    \cup { <<"AddKey", <<p, Sign("K1", p)>>>> :
      p \in {AddKeyPayload("alice", g, Absent) : g \in {<<"bob", "k1">>, <<"carol", "k1">>}} }
    \cup { <<"AddKey", <<AddKeyPayload("alice", <<"bob", "k2">>, "K2"),
                         Sign("K2", AddKeyPayload("alice", <<"bob", "k2">>, "K2"))>>>>,
           <<"UpdateUserData", <<UpdateUserDataPayload("bob", "d2", Absent),
                                 Sign("K1", UpdateUserDataPayload("bob", "d2", Absent))>>>> }

\* the number of steps the invocations have taken
Clock ==
  Cardinality({t \in Txs : txs[t].phase # "idle"})
    + Cardinality({t \in Txs : txs[t].phase = "done"})

ConcInit ==
  /\ store = Register(<<>>, <<RegisterPayload("alice", Profile1, <<>>)>>, "ok").store
  /\ pre = <<>>
  /\ last = NoInvocation
  /\ registered = <<>>
  /\ txs = [t \in Txs |-> NoTx]

\* the ledger state the rest of a handler works on when the ledger is st
StateSeenBy_AtCommit(tx, st) == st

StateSeenBy(tx, st) == tx.snap

\* invocation t starts and reads the ledger
ReadState(t, function, args) ==
  /\ txs[t].phase = "idle"
  /\ txs' = [txs EXCEPT ![t] =
               [NoTx EXCEPT !.phase = "read", !.function = function,
                            !.args = args, !.snap = store,
                            !.readAt = Clock + 1]]
  /\ UNCHANGED <<store, pre, last, registered>>

\* invocation t checks what it read, verifies, and puts its record
WriteState(t) ==
  /\ txs[t].phase = "read"
  /\ \E o \in {Invoke(StateSeenBy(txs[t], store), txs[t].function, txs[t].args, "ok")} :
       /\ store' = IF o.resp.status = "Success"
                   THEN PutState(store, Str(txs[t].args[1].username),
                                 o.store[Str(txs[t].args[1].username)])
                   ELSE store
       /\ txs' = [txs EXCEPT ![t].phase = "done", ![t].resp = o.resp,
                             ![t].writeAt = Clock + 1]
  /\ UNCHANGED <<pre, last, registered>>

BeginTx == \E t \in Txs : \E c \in ConcCalls : ReadState(t, c[1], c[2])

CommitTx == \E t \in Txs : WriteState(t)

NextConc == BeginTx \/ CommitTx

SpecConc == ConcInit /\ [][NextConc]_vars

\* invocations a and b of handlers on username u both read before either
\* wrote, a wrote first, and both carry a signature valid for what they read
Interleaved(a, b, u) ==
  /\ a # b
  /\ txs[a].phase = "done" /\ txs[b].phase = "done"
  /\ UsernameOf(txs[a].args) = u /\ UsernameOf(txs[b].args) = u
  /\ u \in DOMAIN txs[a].snap
  /\ txs[b].readAt < txs[a].writeAt
  /\ txs[a].writeAt < txs[b].writeAt
  /\ ValidSignature(txs[a].args[2], txs[a].args[1], txs[a].snap[u].sPublicKey)
  /\ ValidSignature(txs[b].args[2], txs[b].args[1], txs[b].snap[u].sPublicKey)

(***************************************************************************)
(* C18: when two UpdateUserData/AddKey invocations on one username         *)
(* interleave with both reads before either write, both return success and *)
(* the stored record is the record both read with only the later writer's  *)
(* change: the change of the earlier writer is absent.                     *)
(***************************************************************************)
C18_LostUpdate ==
  \A a, b \in Txs : \A u \in Usernames :
    Interleaved(a, b, u)
    => /\ txs[a].resp.status = "Success"
       /\ txs[b].resp.status = "Success"
       /\ store[u] =
            IF txs[b].function = "UpdateUserData"
            THEN [txs[a].snap[u] EXCEPT !.data = txs[b].args[1].data]
            ELSE [txs[a].snap[u] EXCEPT
                    !.keys = Append(@, [for |-> txs[b].args[1].owner,
                                        key |-> txs[b].args[1].key])]

\* an acknowledged AddKey whose entry the stored record does not hold
C18_Witness ==
  \E a, b \in Txs :
    /\ Interleaved(a, b, "alice")
    /\ txs[a].function = "AddKey"
    /\ txs[a].resp.status = "Success"
    /\ txs[b].resp.status = "Success"
    /\ \A n \in 1..Len(store["alice"].keys) :
         store["alice"].keys[n] #
           [for |-> txs[a].args[1].owner, key |-> txs[a].args[1].key]

====
